---- MODULE Spec2Model ----
(***************************************************************************)
(* RF Audio Monitor: the client device/warning lifecycle controller (the   *)
(* App component of frontend/src), its listen graph and channel-isolator   *)
(* worklet, and the monitor registry and workers it drives over the        *)
(* socket (the server is described by the specification only).             *)
(*                                                                         *)
(* JavaScript values are modelled with their type: a number n is           *)
(* [t |-> "number", v |-> n], the string that n.toString() yields is       *)
(* [t |-> "string", v |-> n], a missing field is UNDEF.  Strict equality   *)
(* (===) is equality of these records, so "2" === 2 is false as in the     *)
(* code.  Handles (timer ids, streams, audio nodes) are positive integers, *)
(* null is NULL and a field that was never set is UNDEFINED; a channel   *)
(* number is an integer >= 0, so that channel 0 differs from null.               *)
(***************************************************************************)
EXTENDS Integers, Sequences, FiniteSets, Bags, TLC

VARIABLES
  now,             \* the wall clock Date.now() reads, in ms
  audioDevices,    \* useState: the fetched device list
  workletLoaded,   \* useState: the channel-isolator worklet is loaded
  selectedDevice,  \* useState: the selected device's index, or NULL
  selectedChannel, \* useState: the selected channel, or NULL
  activeDevices,   \* useState: the list of sessions
  timers,          \* the browser's pending setTimeout timers
  nextTimer,       \* the next id setTimeout returns
  pending,         \* handlePlayPause calls suspended at their await
  liveStreams,     \* capture streams whose tracks have not been stopped
  connected,       \* audio nodes that are connected
  nextHandle,      \* the next capture stream / audio node handle
  outbox,          \* commands emitted on the socket, not yet processed
  workers,         \* the monitor registry: the bag of running workers' identities
  mounted,         \* the component is mounted (socket connected)
  nextKey,         \* history: how many sessions have been added
  reply,           \* the registry's outcome for the last command processed
  events,          \* the FaultEvents the workers have emitted
  acquired,        \* history: the capture streams getUserMedia has returned
  processor,       \* a ChannelIsolatorProcessor: its target, its last call
  popup            \* a WarningPopUp: its props, its close timer, its calls

vars == <<now, audioDevices, workletLoaded, selectedDevice, selectedChannel,
          activeDevices, timers, nextTimer, pending, liveStreams, connected,
          nextHandle, outbox, workers, mounted, nextKey, reply, events,
          acquired, processor, popup>>

----------------------------------------------------------------------------
(* Bounds of the model *)

MaxMs == 1
MaxDelays == 1
MaxAdds == 2
MaxTimers == 3
MaxHandles == 2
MaxPending == 2
MaxChannels == 2
MaxFrames == 2
MaxSample == 3
MaxEffects == 3
MaxProps == 2

(* Program constants *)

WarningDelay == 5000
PopUpDelay == 5000
NULL == -1
UNDEFINED == -2

----------------------------------------------------------------------------
(* JavaScript values *)

Num(n) == [t |-> "number", v |-> n]
Str(n) == [t |-> "string", v |-> n]
UNDEF == [t |-> "undefined", v |-> 0]

\* Number.prototype.toString on an integer
toString(n) == Str(n)

\* if (x) on a handle: null and undefined are falsy, a handle is truthy
Truthy(h) == h > 0

\* The device list the enumeration endpoint returns: index and channel count.
FetchedDevices == { [index |-> 2, channels |-> 2], [index |-> 3, channels |-> 1] }

DeviceIndexes == { d.index : d \in FetchedDevices }

\* The payloads a `warning` event can carry: each field is missing, a JSON
\* number or a JSON string.
WarningPayloads ==
  [ deviceIndex : {UNDEF} \cup { Num(i) : i \in DeviceIndexes }
                          \cup { Str(i) : i \in DeviceIndexes },
    channel     : {UNDEF, Num(0), Num(1), Str(1)} ]

----------------------------------------------------------------------------
(* Helpers over the session list *)

Range(s) == { s[i] : i \in 1..Len(s) }

\* Array.prototype.findIndex(d => d.id === id): the first match, 0 for none
FindIndex(s, id) ==
  IF \E i \in 1..Len(s) : s[i].id = id
  THEN CHOOSE i \in 1..Len(s) : s[i].id = id /\ \A j \in 1..(i-1) : s[j].id # id
  ELSE 0

\* The audio nodes of the listen graph built on capture stream h
GraphNodes(h) == { <<"source", h>>, <<"channelIsolator", h>>, <<"gainNode", h>> }

----------------------------------------------------------------------------
(* Init: the state after the component is constructed *)

\* No WarningPopUp has been rendered: no props, no timer, no call of
\* onClose.
NoPopUp ==
  [ state |-> "none", warning |-> NULL, onClose |-> NULL, shownAt |-> NULL,
    timer |-> NULL, pending |-> {}, effects |-> 0, calls |-> {} ]

ClientInit ==
  /\ now \in {0}
  /\ audioDevices = {}
  /\ workletLoaded = FALSE
  /\ selectedDevice = NULL
  /\ selectedChannel = NULL
  /\ activeDevices = <<>>
  /\ timers = {}
  /\ nextTimer = 1
  /\ pending = <<>>
  /\ liveStreams = {}
  /\ connected = {}
  /\ nextHandle = 1
  /\ outbox = <<>>
  /\ workers = EmptyBag
  /\ mounted = TRUE
  /\ nextKey = 0
  /\ reply = "none"
  /\ events = {}
  /\ acquired = {}
  /\ popup = NoPopUp

\* The sample blocks of the model: MaxFrames frames of non-zero samples; a
\* silent block is all zero.
Blocks == [1..MaxFrames -> 1..MaxSample]

Silent == [f \in 1..MaxFrames |-> 0]

\* new ChannelIsolatorProcessor(options): the target channel is stored; no
\* call of process() has been made.  outputs is the number of channels of
\* the node's output.
NewProcessor(targetChannel, outputs) ==
  [ targetChannel |-> targetChannel, calls |-> 0, input |-> <<>>,
    output |-> [c \in 1..outputs |-> Silent] ]

Init ==
  /\ ClientInit
  /\ processor = NewProcessor(0, 1)

----------------------------------------------------------------------------
(* The clock and the mount effects *)

\* The clock values the model visits: a few milliseconds after a few
\* multiples of the warning delay.
ClockValues == { a + b * WarningDelay : a \in 0..MaxMs, b \in 0..MaxDelays }

\* The last clock value of the model.
LastClock == MaxMs + MaxDelays * WarningDelay

\* Time passes: by one millisecond, or by the warning delay.
Tick ==
  /\ \E d \in {1, WarningDelay} :
       /\ now + d \in ClockValues
       /\ now' = now + d
  /\ UNCHANGED <<audioDevices, workletLoaded, selectedDevice, selectedChannel,
                 activeDevices, timers, nextTimer, pending, liveStreams,
                 connected, nextHandle, outbox, workers, mounted, nextKey,
                 reply, events, acquired, processor, popup>>

\* loadWorklet: addModule resolves and the worklet is marked loaded.
loadWorklet ==
  /\ mounted
  /\ ~workletLoaded
  /\ workletLoaded' = TRUE
  /\ UNCHANGED <<now, audioDevices, selectedDevice, selectedChannel,
                 activeDevices, timers, nextTimer, pending, liveStreams,
                 connected, nextHandle, outbox, workers, mounted, nextKey,
                 reply, events, acquired, processor, popup>>

\* fetchAudioDevices: the device list arrives.
fetchAudioDevices ==
  /\ mounted
  /\ audioDevices = {}
  /\ audioDevices' = FetchedDevices
  /\ UNCHANGED <<now, workletLoaded, selectedDevice, selectedChannel,
                 activeDevices, timers, nextTimer, pending, liveStreams,
                 connected, nextHandle, outbox, workers, mounted, nextKey,
                 reply, events, acquired, processor, popup>>

----------------------------------------------------------------------------
(* Selecting a device and a channel, adding a session *)

\* handleDeviceSelect: the option chosen is a device of the list, or the
\* empty option (value NULL), for which find() yields nothing.
handleDeviceSelect ==
  /\ mounted
  /\ \E value \in DeviceIndexes \cup {NULL} :
       selectedDevice' = IF \E d \in audioDevices : d.index = value
                         THEN value ELSE NULL
  /\ selectedChannel' = NULL
  /\ UNCHANGED <<now, audioDevices, workletLoaded, activeDevices, timers,
                 nextTimer, pending, liveStreams, connected, nextHandle,
                 outbox, workers, mounted, nextKey,
                 reply, events, acquired, processor, popup>>

\* The channel options the ChannelSelector renders for a device.
ChannelOptions(index) ==
  UNION { 0..(d.channels - 1) : d \in { e \in audioDevices : e.index = index } }

\* handleChannelSelect: the empty option sets null, else the parsed channel.
\* The selector is rendered only while a device is selected.
handleChannelSelect ==
  /\ mounted
  /\ selectedDevice # NULL
  /\ \E value \in ChannelOptions(selectedDevice) \cup {NULL} :
       selectedChannel' = value
  /\ UNCHANGED <<now, audioDevices, workletLoaded, selectedDevice,
                 activeDevices, timers, nextTimer, pending, liveStreams,
                 connected, nextHandle, outbox, workers, mounted, nextKey,
                 reply, events, acquired, processor, popup>>

\* The session record handleAddDevice builds.  channelIsolator is not among
\* the fields it sets.  key and warnedAt are history: the order of creation,
\* and the time of the latest matching notification.
NewDevice(deviceId, index, channel, key) ==
  [ id |-> deviceId, index |-> index, channel |-> channel,
    isPlaying |-> FALSE, stream |-> NULL, source |-> NULL,
    channelIsolator |-> UNDEFINED, gainNode |-> NULL,
    hasWarning |-> FALSE, warningTimeout |-> NULL,
    key |-> key, warnedAt |-> NULL ]

\* StartAudio with the channel field taken from the device index.
StartAudio_IndexAsChannel(deviceId, index, channel) ==
  [ cmd |-> "start_audio", deviceId |-> deviceId,
    deviceIndex |-> index, channel |-> index ]

\* The start_audio command of handleAddDevice.
StartAudio(deviceId, index, channel) ==
  [ cmd |-> "start_audio", deviceId |-> deviceId,
    deviceIndex |-> index, channel |-> channel ]

\* The stop_audio command of handleRemoveDevice and of the unmount cleanup.
StopAudio(device) ==
  [ cmd |-> "stop_audio", deviceId |-> device.id,
    deviceIndex |-> device.index, channel |-> device.channel ]

\* CanAdd with the channel not looked at.
CanAdd_DeviceOnly == selectedDevice # NULL

\* The guard of handleAddDevice: selectedDevice && selectedChannel !== null
CanAdd == selectedDevice # NULL /\ selectedChannel # NULL

\* handleAddDevice: with a device and a channel selected, emit start_audio,
\* append the session and clear the selection; otherwise do nothing.
handleAddDevice ==
  /\ mounted
  /\ IF CanAdd
     THEN /\ nextKey < MaxAdds
          /\ LET deviceId == toString(now) IN
             /\ outbox' = Append(outbox,
                            StartAudio(deviceId, selectedDevice, selectedChannel))
             /\ activeDevices' = Append(activeDevices,
                            NewDevice(deviceId, selectedDevice, selectedChannel,
                                      nextKey + 1))
          /\ nextKey' = nextKey + 1
          /\ selectedDevice' = NULL
          /\ selectedChannel' = NULL
     ELSE UNCHANGED <<outbox, activeDevices, nextKey, selectedDevice,
                      selectedChannel>>
  /\ UNCHANGED <<now, audioDevices, workletLoaded, timers, nextTimer, pending,
                 liveStreams, connected, nextHandle, workers, mounted,
                 reply, events, acquired, processor, popup>>

----------------------------------------------------------------------------
(* Removing a session *)

\* What stopping playback releases: the stream's tracks are stopped and the
\* three nodes disconnected, each only if the handle is set (?.).
StopTracks(device, live) ==
  IF Truthy(device.stream) THEN live \ {device.stream} ELSE live

Disconnect(device, conn) ==
  conn \ ( (IF Truthy(device.source) THEN {<<"source", device.source>>} ELSE {})
      \cup (IF Truthy(device.channelIsolator)
            THEN {<<"channelIsolator", device.channelIsolator>>} ELSE {})
      \cup (IF Truthy(device.gainNode) THEN {<<"gainNode", device.gainNode>>}
            ELSE {}) )

\* setActiveDevices(devices => devices.filter(d => d.id !== deviceId))
RemoveById(devices, deviceId) ==
  LET Keep(d) == d.id # deviceId IN SelectSeq(devices, Keep)

\* handleRemoveDevice(deviceId), from the remove button of a listed session.
handleRemoveDevice(deviceId) ==
  /\ mounted
  /\ deviceId \in { d.id : d \in Range(activeDevices) }
  /\ LET device == activeDevices[FindIndex(activeDevices, deviceId)] IN
       /\ liveStreams' = IF device.isPlaying
                         THEN StopTracks(device, liveStreams) ELSE liveStreams
       /\ connected' = IF device.isPlaying
                       THEN Disconnect(device, connected) ELSE connected
       /\ outbox' = Append(outbox, StopAudio(device))
       /\ activeDevices' = RemoveById(activeDevices, deviceId)
  /\ UNCHANGED <<now, audioDevices, workletLoaded, selectedDevice,
                 selectedChannel, timers, nextTimer, pending, nextHandle,
                 workers, mounted, nextKey,
                 reply, events, acquired, processor, popup>>

----------------------------------------------------------------------------
(* The warning handler and its timers *)

\* Matches with the channel comparison left out.
Matches_IgnoringChannel(device, deviceIndex, channel) ==
  toString(device.index) = deviceIndex

\* The match of socket.on("warning"): the stringified device index against
\* the payload's deviceIndex, the channel against the payload's channel,
\* both with ===.
Matches(device, deviceIndex, channel) ==
  toString(device.index) = deviceIndex /\ Num(device.channel) = channel

\* The positions of the sessions a payload matches.
MatchIdx(devices, data) ==
  { i \in 1..Len(devices) : Matches(devices[i], data.deviceIndex, data.channel) }

\* setTimeout hands out ids in the order map() visits the matching sessions.
TimerFor(devices, data, i) ==
  nextTimer + Cardinality({ j \in MatchIdx(devices, data) : j < i })

\* The timer the handler schedules for a matching session: the callback
\* captures device.id, and is due after the warning delay.
NewTimer(tid, device) ==
  [ tid |-> tid, id |-> device.id, due |-> now + WarningDelay,
    key |-> device.key ]

\* The timers clearTimeout(device.warningTimeout) cancels.
Cancelled(devices, data) ==
  { devices[i].warningTimeout : i \in
      { j \in MatchIdx(devices, data) : Truthy(devices[j].warningTimeout) } }

\* MarkWarning with the timer's handle not stored in the session.
MarkWarning_WithoutHandle(devices, data) ==
  [ i \in 1..Len(devices) |->
      IF i \in MatchIdx(devices, data)
      THEN [devices[i] EXCEPT !.hasWarning = TRUE, !.warnedAt = now]
      ELSE devices[i] ]

\* prevDevices.map(...) of the handler
MarkWarning(devices, data) ==
  [ i \in 1..Len(devices) |->
      IF i \in MatchIdx(devices, data)
      THEN [devices[i] EXCEPT !.hasWarning = TRUE,
                              !.warningTimeout = TimerFor(devices, data, i),
                              !.warnedAt = now]
      ELSE devices[i] ]

\* The pending timers after the handler ran: the matching sessions' old
\* timers are cancelled, and one new timer is scheduled for each.
Reschedule(devices, data) ==
  { t \in timers : t.tid \notin Cancelled(devices, data) }
  \cup { NewTimer(TimerFor(devices, data, i), devices[i]) :
         i \in MatchIdx(devices, data) }

\* The test of the handler for a payload to ignore: deviceIndex or channel
\* is undefined.
Lacks(data) == data.deviceIndex = UNDEF \/ data.channel = UNDEF

\* OnWarning without the test: a payload with a field missing marks every
\* session.
OnWarning_WithoutTest(data) ==
  /\ mounted
  /\ data \in WarningPayloads
  /\ IF Lacks(data)
     THEN /\ activeDevices' =
               [ i \in 1..Len(activeDevices) |->
                   [activeDevices[i] EXCEPT !.hasWarning = TRUE] ]
          /\ UNCHANGED <<timers, nextTimer>>
     ELSE /\ nextTimer + Cardinality(MatchIdx(activeDevices, data)) - 1
               <= MaxTimers
          /\ activeDevices' = MarkWarning(activeDevices, data)
          /\ timers' = Reschedule(activeDevices, data)
          /\ nextTimer' = nextTimer
                          + Cardinality(MatchIdx(activeDevices, data))
  /\ UNCHANGED <<now, audioDevices, workletLoaded, selectedDevice,
                 selectedChannel, pending, liveStreams, connected, nextHandle,
                 outbox, workers, mounted, nextKey,
                 reply, events, acquired, processor, popup>>

\* socket.on("warning", data): a broadcast notification is delivered.
OnWarning(data) ==
  /\ mounted
  /\ data \in WarningPayloads
  /\ IF Lacks(data)
     THEN UNCHANGED <<activeDevices, timers, nextTimer>>
     ELSE /\ nextTimer + Cardinality(MatchIdx(activeDevices, data)) - 1
               <= MaxTimers
          /\ activeDevices' = MarkWarning(activeDevices, data)
          /\ timers' = Reschedule(activeDevices, data)
          /\ nextTimer' = nextTimer
                          + Cardinality(MatchIdx(activeDevices, data))
  /\ UNCHANGED <<now, audioDevices, workletLoaded, selectedDevice,
                 selectedChannel, pending, liveStreams, connected, nextHandle,
                 outbox, workers, mounted, nextKey,
                 reply, events, acquired, processor, popup>>

\* currentDevices.map(d => d.id === device.id ? {...d, hasWarning: false,
\* warningTimeout: null} : d) of the timeout callback
ClearWarning(devices, id) ==
  [ i \in 1..Len(devices) |->
      IF devices[i].id = id
      THEN [devices[i] EXCEPT !.hasWarning = FALSE, !.warningTimeout = NULL]
      ELSE devices[i] ]

\* A pending timer expires, no sooner than it is due.  After the unmount
\* the state update has no effect.
TimerFire(t) ==
  /\ t \in timers
  /\ now >= t.due
  /\ timers' = timers \ {t}
  /\ activeDevices' = IF mounted THEN ClearWarning(activeDevices, t.id)
                      ELSE activeDevices
  /\ UNCHANGED <<now, audioDevices, workletLoaded, selectedDevice,
                 selectedChannel, nextTimer, pending, liveStreams, connected,
                 nextHandle, outbox, workers, mounted, nextKey,
                 reply, events, acquired, processor, popup>>

----------------------------------------------------------------------------
(* The listen graph: handlePlayPause *)

\* MarkStopped resetting the warning fields as well.
MarkStopped_ClearingWarning(devices, deviceId) ==
  [ i \in 1..Len(devices) |->
      IF devices[i].id = deviceId
      THEN [devices[i] EXCEPT !.isPlaying = FALSE, !.stream = NULL,
                              !.source = NULL, !.channelIsolator = NULL,
                              !.gainNode = NULL, !.hasWarning = FALSE,
                              !.warningTimeout = NULL]
      ELSE devices[i] ]

\* devices.map(d => d.id === deviceId ? {...d, isPlaying: false, stream: null,
\* source: null, channelIsolator: null, gainNode: null} : d)
MarkStopped(devices, deviceId) ==
  [ i \in 1..Len(devices) |->
      IF devices[i].id = deviceId
      THEN [devices[i] EXCEPT !.isPlaying = FALSE, !.stream = NULL,
                              !.source = NULL, !.channelIsolator = NULL,
                              !.gainNode = NULL]
      ELSE devices[i] ]

\* MarkPlaying with the isolator node not stored in the session.
MarkPlaying_WithoutIsolator(devices, deviceId, h) ==
  [ i \in 1..Len(devices) |->
      IF devices[i].id = deviceId
      THEN [devices[i] EXCEPT !.isPlaying = TRUE, !.stream = h, !.source = h,
                              !.gainNode = h]
      ELSE devices[i] ]

\* devices.map(d => d.id === deviceId ? {...d, isPlaying: true, stream,
\* source, channelIsolator, gainNode} : d)
MarkPlaying(devices, deviceId, h) ==
  [ i \in 1..Len(devices) |->
      IF devices[i].id = deviceId
      THEN [devices[i] EXCEPT !.isPlaying = TRUE, !.stream = h, !.source = h,
                              !.channelIsolator = h, !.gainNode = h]
      ELSE devices[i] ]

\* handlePlayPause with a pause that also stops the server's monitoring.
handlePlayPause_StoppingMonitor(deviceId) ==
  /\ mounted
  /\ deviceId \in { d.id : d \in Range(activeDevices) }
  /\ LET device == activeDevices[FindIndex(activeDevices, deviceId)] IN
       /\ IF device.isPlaying
          THEN /\ liveStreams' = StopTracks(device, liveStreams)
               /\ connected' = Disconnect(device, connected)
               /\ activeDevices' = MarkStopped(activeDevices, deviceId)
               /\ outbox' = Append(outbox, StopAudio(device))
               /\ UNCHANGED pending
          ELSE IF ~workletLoaded
          THEN UNCHANGED <<liveStreams, connected, activeDevices, pending,
                           outbox>>
          ELSE /\ Len(pending) < MaxPending
               /\ pending' = Append(pending, [id |-> deviceId,
                                              key |-> device.key])
               /\ UNCHANGED <<liveStreams, connected, activeDevices, outbox>>
  /\ UNCHANGED <<now, audioDevices, workletLoaded, selectedDevice,
                 selectedChannel, timers, nextTimer, nextHandle,
                 workers, mounted, nextKey,
                 reply, events, acquired, processor, popup>>

\* handlePlayPause(deviceId), from the button of a listed session, up to its
\* first await: the stop branch runs to its end, the start branch returns if
\* the worklet is not loaded and else suspends at getUserMedia, its closure
\* holding deviceId and the session it found (key is that session's).
handlePlayPause(deviceId) ==
  /\ mounted
  /\ deviceId \in { d.id : d \in Range(activeDevices) }
  /\ LET device == activeDevices[FindIndex(activeDevices, deviceId)] IN
       /\ IF device.isPlaying
          THEN /\ liveStreams' = StopTracks(device, liveStreams)
               /\ connected' = Disconnect(device, connected)
               /\ activeDevices' = MarkStopped(activeDevices, deviceId)
               /\ UNCHANGED pending
          ELSE IF ~workletLoaded
          THEN UNCHANGED <<liveStreams, connected, activeDevices, pending>>
          ELSE /\ Len(pending) < MaxPending
               /\ pending' = Append(pending, [id |-> deviceId,
                                              key |-> device.key])
               /\ UNCHANGED <<liveStreams, connected, activeDevices>>
  /\ UNCHANGED <<now, audioDevices, workletLoaded, selectedDevice,
                 selectedChannel, timers, nextTimer, nextHandle, outbox,
                 workers, mounted, nextKey,
                 reply, events, acquired, processor, popup>>

\* History: getUserMedia returned stream h to the call, which was made for
\* the session with the call's key; built says whether the audio nodes were
\* created on it.
Acquired(h, call, built) == [h |-> h, key |-> call.key, built |-> built]

\* The pending calls without the i-th.
Resume(calls, i) == SubSeq(calls, 1, i - 1) \o SubSeq(calls, i + 1, Len(calls))

\* getUserMedia resolves for a suspended call: the stream is live, the three
\* nodes are created and connected, and the session with the call's id is
\* marked playing.  After the unmount the state update has no effect.
getUserMediaResolved ==
  /\ nextHandle <= MaxHandles
  /\ \E i \in 1..Len(pending) :
       /\ pending' = Resume(pending, i)
       /\ liveStreams' = liveStreams \cup {nextHandle}
       /\ connected' = connected \cup GraphNodes(nextHandle)
       /\ activeDevices' = IF mounted
                           THEN MarkPlaying(activeDevices, pending[i].id,
                                            nextHandle)
                           ELSE activeDevices
       /\ acquired' = acquired \cup {Acquired(nextHandle, pending[i], TRUE)}
  /\ nextHandle' = nextHandle + 1
  /\ UNCHANGED <<now, audioDevices, workletLoaded, selectedDevice,
                 selectedChannel, timers, nextTimer, outbox, workers, mounted,
                 nextKey,
                 reply, events, processor, popup>>

\* audioContext.resume() or getUserMedia rejects: the catch logs the error.
getUserMediaRejected ==
  /\ \E i \in 1..Len(pending) :
       /\ pending' = Resume(pending, i)
  /\ UNCHANGED <<now, audioDevices, workletLoaded, selectedDevice,
                 selectedChannel, activeDevices, timers, nextTimer, liveStreams,
                 connected, nextHandle, outbox, workers, mounted, nextKey,
                 reply, events, acquired, processor, popup>>

\* getUserMedia resolves and creating the first audio node throws: the catch
\* logs the error, with the stream acquired.
createNodeThrows ==
  /\ nextHandle <= MaxHandles
  /\ \E i \in 1..Len(pending) :
       /\ pending' = Resume(pending, i)
       /\ acquired' = acquired \cup {Acquired(nextHandle, pending[i], FALSE)}
  /\ liveStreams' = liveStreams \cup {nextHandle}
  /\ nextHandle' = nextHandle + 1
  /\ UNCHANGED <<now, audioDevices, workletLoaded, selectedDevice,
                 selectedChannel, activeDevices, timers, nextTimer, connected,
                 outbox, workers, mounted, nextKey,
                 reply, events, processor, popup>>

----------------------------------------------------------------------------
(* The channel-isolator worklet *)

\* The input arrays of a call: inputs[0], with no channel (nothing is
\* connected or the source has ended), or up to MaxChannels channels.
InputArrays == UNION { [1..n -> Blocks] : n \in 0..MaxChannels }

\* The target channels a session can configure: its device's channels.
TargetChannels == 0..(MaxChannels - 1)

\* process() copying the channel after the target channel.
Process_NextChannel(targetChannel, input, output) ==
  IF Len(input) = 0 THEN output
  ELSE [ c \in 1..Len(output) |-> input[((targetChannel + 1) % Len(input)) + 1] ]

\* process(inputs, outputs) on inputs[0] and outputs[0]: with no input
\* channel it returns at once; if input[targetChannel] is defined it is
\* copied to every output channel, and else the output is left as it was.
\* Arrays are 0-based in the code and 1-based here.
Process(targetChannel, input, output) ==
  IF Len(input) = 0 THEN output
  ELSE IF targetChannel + 1 \in 1..Len(input)
  THEN [ c \in 1..Len(output) |-> input[targetChannel + 1] ]
  ELSE output

\* The audio thread calls process() on a render quantum: the output buffers
\* arrive zero-filled.
process ==
  /\ \E input \in InputArrays :
       processor' =
         [ processor EXCEPT
             !.calls = 1,
             !.input = input,
             !.output = Process(processor.targetChannel, input,
                                [c \in 1..Len(processor.output) |-> Silent]) ]
  /\ UNCHANGED <<now, audioDevices, workletLoaded, selectedDevice,
                 selectedChannel, activeDevices, timers, nextTimer, pending,
                 liveStreams, connected, nextHandle, outbox, workers, mounted,
                 nextKey, reply, events, acquired, popup>>

----------------------------------------------------------------------------
(* The WarningPopUp component *)

\* The props a parent can pass: a warning, which stands for the object and
\* its id, and an onClose function, by identity.
PopUpProps == [warning : 1..MaxProps, onClose : 1..MaxProps]

\* The effect body: setTimeout(() => onClose(warning.id), 5000).  The
\* callback closes over the props of this render, and the handle is kept
\* for the cleanup.
Effect(p, props) ==
  LET tid == p.effects + 1 IN
    [ p EXCEPT !.warning = props.warning,
               !.onClose = props.onClose,
               !.timer = tid,
               !.effects = tid,
               !.pending = @ \cup { [ tid |-> tid, id |-> props.warning,
                                      onClose |-> props.onClose,
                                      due |-> now + PopUpDelay ] } ]

\* The effect's cleanup: clearTimeout(timer)
Cleanup(p) == [ p EXCEPT !.pending = { t \in @ : t.tid # p.timer } ]

\* The popup is rendered for the first time: the effect runs.
PopUpMount ==
  /\ popup.state = "none"
  /\ \E props \in PopUpProps :
       popup' = Effect([popup EXCEPT !.state = "mounted", !.shownAt = now],
                       props)
  /\ UNCHANGED <<now, audioDevices, workletLoaded, selectedDevice,
                 selectedChannel, activeDevices, timers, nextTimer, pending,
                 liveStreams, connected, nextHandle, outbox, workers, mounted,
                 nextKey, reply, events, acquired, processor>>

\* The parent renders the popup with a dependency changed, [warning,
\* onClose]: the cleanup of the last effect runs, then the effect.
PopUpRender ==
  /\ popup.state = "mounted"
  /\ popup.effects < MaxEffects
  /\ \E props \in PopUpProps :
       /\ <<props.warning, props.onClose>> # <<popup.warning, popup.onClose>>
       /\ popup' = Effect(Cleanup(popup), props)
  /\ UNCHANGED <<now, audioDevices, workletLoaded, selectedDevice,
                 selectedChannel, activeDevices, timers, nextTimer, pending,
                 liveStreams, connected, nextHandle, outbox, workers, mounted,
                 nextKey, reply, events, acquired, processor>>

\* A pending close timer expires, no sooner than it is due: the callback
\* calls onClose(warning.id) of the render that scheduled it.
PopUpTimeout ==
  /\ \E t \in popup.pending :
       /\ now >= t.due
       /\ popup' = [ popup EXCEPT
                       !.pending = @ \ {t},
                       !.calls = @ \cup { [ id |-> t.id, onClose |-> t.onClose,
                                            at |-> now,
                                            state |-> popup.state ] } ]
  /\ UNCHANGED <<now, audioDevices, workletLoaded, selectedDevice,
                 selectedChannel, activeDevices, timers, nextTimer, pending,
                 liveStreams, connected, nextHandle, outbox, workers, mounted,
                 nextKey, reply, events, acquired, processor>>

\* The popup is unmounted: the cleanup of the last effect runs.
PopUpUnmount ==
  /\ popup.state = "mounted"
  /\ popup' = [Cleanup(popup) EXCEPT !.state = "unmounted"]
  /\ UNCHANGED <<now, audioDevices, workletLoaded, selectedDevice,
                 selectedChannel, activeDevices, timers, nextTimer, pending,
                 liveStreams, connected, nextHandle, outbox, workers, mounted,
                 nextKey, reply, events, acquired, processor>>

----------------------------------------------------------------------------
(* Unmount *)

\* The timers the cleanup cancels: those the listed sessions hold.
HeldTimers(devices) ==
  { d.warningTimeout : d \in { e \in Range(devices) : Truthy(e.warningTimeout) } }

\* The stop_audio commands of the cleanup, in list order.
StopAll(devices) == [ i \in 1..Len(devices) |-> StopAudio(devices[i]) ]

\* socket.disconnect(): what the server receives when the connection ends.
SocketDisconnect ==
  [ cmd |-> "disconnect", deviceId |-> UNDEF, deviceIndex |-> NULL,
    channel |-> NULL ]

\* The cleanup of the socket effect: for each session of
\* activeDevicesRef.current cancel its timer and emit stop_audio, then
\* disconnect the socket.
Unmount ==
  /\ mounted
  /\ mounted' = FALSE
  /\ timers' = { t \in timers : t.tid \notin HeldTimers(activeDevices) }
  /\ outbox' = (outbox \o StopAll(activeDevices)) \o <<SocketDisconnect>>
  /\ UNCHANGED <<now, audioDevices, workletLoaded, selectedDevice,
                 selectedChannel, activeDevices, nextTimer, pending,
                 liveStreams, connected, nextHandle, workers, nextKey,
                 reply, events, acquired, processor, popup>>

----------------------------------------------------------------------------
(* The monitor registry, as the specification describes it *)

Identity(cmd) == <<cmd.deviceIndex, cmd.channel>>

\* The registry leaving the workers running when the connection is lost.
Registry_IgnoringDisconnect(running, cmd) ==
  IF cmd.cmd = "start_audio"
  THEN IF BagIn(Identity(cmd), running) THEN running
       ELSE running (+) SetToBag({Identity(cmd)})
  ELSE IF cmd.cmd = "stop_audio"
  THEN IF BagIn(Identity(cmd), running)
       THEN running (-) SetToBag({Identity(cmd)})
       ELSE running
  ELSE running

\* The registry with a start that does not look for an existing worker.
Registry_AlwaysStarting(running, cmd) ==
  IF cmd.cmd = "start_audio"
  THEN running (+) SetToBag({Identity(cmd)})
  ELSE IF cmd.cmd = "stop_audio"
  THEN IF BagIn(Identity(cmd), running)
       THEN running (-) SetToBag({Identity(cmd)})
       ELSE running
  ELSE EmptyBag

\* start(identity) is a no-op if a worker for the identity exists and else
\* starts one and records its handle; stop(identity) is a no-op if none
\* exists and else removes the handle; the loss of the connection stops
\* every worker the connection had started (the model has one connection).
Registry(running, cmd) ==
  IF cmd.cmd = "start_audio"
  THEN IF BagIn(Identity(cmd), running) THEN running
       ELSE running (+) SetToBag({Identity(cmd)})
  ELSE IF cmd.cmd = "stop_audio"
  THEN IF BagIn(Identity(cmd), running)
       THEN running (-) SetToBag({Identity(cmd)})
       ELSE running
  ELSE EmptyBag

\* The registry reporting an error for a stop without a worker.
Reply_ErrorOnMissing(running, cmd) ==
  IF cmd.cmd = "start_audio"
  THEN IF BagIn(Identity(cmd), running) THEN "exists" ELSE "started"
  ELSE IF cmd.cmd = "stop_audio"
  THEN IF BagIn(Identity(cmd), running) THEN "stopped" ELSE "error"
  ELSE "disconnected"

\* The outcome the registry reports for a command.
Reply(running, cmd) ==
  IF cmd.cmd = "start_audio"
  THEN IF BagIn(Identity(cmd), running) THEN "exists" ELSE "started"
  ELSE IF cmd.cmd = "stop_audio"
  THEN IF BagIn(Identity(cmd), running) THEN "stopped" ELSE "noop"
  ELSE "disconnected"

\* The server processes the next command of the socket, in order.
ProcessCommand ==
  /\ outbox # <<>>
  /\ workers' = Registry(workers, Head(outbox))
  /\ reply' = Reply(workers, Head(outbox))
  /\ outbox' = Tail(outbox)
  /\ UNCHANGED <<now, audioDevices, workletLoaded, selectedDevice,
                 selectedChannel, activeDevices, timers, nextTimer, pending,
                 liveStreams, connected, nextHandle, mounted, nextKey,
                 events, acquired, processor, popup>>

\* The connection is lost without the client's cleanup having run: the
\* server sees the disconnect after the commands already sent.
ConnectionLost ==
  /\ mounted
  /\ reply # "disconnected"
  /\ \A j \in 1..Len(outbox) : outbox[j] # SocketDisconnect
  /\ outbox' = Append(outbox, SocketDisconnect)
  /\ UNCHANGED <<now, audioDevices, workletLoaded, selectedDevice,
                 selectedChannel, activeDevices, timers, nextTimer, pending,
                 liveStreams, connected, nextHandle, workers, mounted,
                 nextKey, reply, events, acquired, processor, popup>>

----------------------------------------------------------------------------
(* The monitor worker, as the specification describes it *)

\* The minimum reporting interval of a worker, in ms.
ReportInterval == 1000

\* The labels the classifier returns for a window.
Labels == {"fault", "nominal"}

\* The identities the client can ask the server to monitor.
Identities ==
  UNION { { <<d.index, c>> : c \in 0..(d.channels - 1) } : d \in FetchedDevices }

\* The timestamps of the events emitted for an identity.
Emitted(evs, identity) == { e.timestamp : e \in { f \in evs : f.monitorIdentity = identity } }

\* A worker that reports every fault.
MayReport_Always(evs, identity) == TRUE

\* A worker may report a fault if it has emitted no event for its identity
\* within the reporting interval.
MayReport(evs, identity) ==
  \A ts \in Emitted(evs, identity) : now - ts >= ReportInterval

FaultEvent(identity) == [ monitorIdentity |-> identity, timestamp |-> now ]

\* A running worker analyses its next window: on a fault label it emits a
\* FaultEvent, unless it emitted one for its identity within the interval.
AnalyseWindow(identity, label) ==
  /\ BagIn(identity, workers)
  /\ events' = IF label = "fault" /\ MayReport(events, identity)
               THEN events \cup {FaultEvent(identity)}
               ELSE events
  /\ UNCHANGED <<now, audioDevices, workletLoaded, selectedDevice,
                 selectedChannel, activeDevices, timers, nextTimer, pending,
                 liveStreams, connected, nextHandle, outbox, workers, mounted,
                 nextKey, reply, acquired, processor, popup>>

----------------------------------------------------------------------------

\* The selection form and the session list: common to every part.
Sessions ==
  \/ fetchAudioDevices
  \/ handleDeviceSelect
  \/ handleChannelSelect
  \/ handleAddDevice
  \/ \E deviceId \in { d.id : d \in Range(activeDevices) } :
       handleRemoveDevice(deviceId)
  \/ Unmount

\* The warning lifecycle: notifications, their timers and the clock.
Warnings ==
  \/ Tick
  \/ \E data \in WarningPayloads : OnWarning(data)
  \/ \E t \in timers : TimerFire(t)

\* The listen graph.
Listen ==
  \/ loadWorklet
  \/ \E deviceId \in { d.id : d \in Range(activeDevices) } :
       handlePlayPause(deviceId)
  \/ getUserMediaResolved
  \/ getUserMediaRejected
  \/ createNodeThrows

\* The warning popup.
PopUp ==
  \/ PopUpMount
  \/ PopUpRender
  \/ PopUpTimeout
  \/ PopUpUnmount

\* The monitor workers.
Workers ==
  \E identity \in Identities : \E label \in Labels :
    AnalyseWindow(identity, label)

Next ==
  \/ Sessions \/ Warnings \/ Listen \/ ProcessCommand \/ ConnectionLost
  \/ Workers \/ process \/ PopUp

Spec == Init /\ [][Next]_vars

\* The client's sessions and warnings.
SpecWarn == Init /\ [][Sessions \/ Warnings]_vars

\* The client's sessions and listen graphs; the clock separates the ids.
SpecListen == Init /\ [][Sessions \/ Listen \/ Tick]_vars

\* The client's sessions and the registry its commands drive.
SpecServer == Init /\ [][Sessions \/ Tick \/ ProcessCommand]_vars

\* A channel isolator of any target channel and output width, called on
\* any input.
InitIsolator ==
  /\ ClientInit
  /\ \E targetChannel \in TargetChannels : \E outputs \in 1..MaxChannels :
       processor = NewProcessor(targetChannel, outputs)

SpecIsolator == InitIsolator /\ [][process]_vars

\* A warning popup and the clock.
SpecPopUp == Init /\ [][PopUp \/ Tick]_vars

\* At most one session is ever added.
SingleSession == nextKey' <= 1

\* The client with one session: its warnings and its listen graph
\* interleaved.
SpecSingle ==
  Init /\ [][(Sessions \/ Warnings \/ Listen) /\ SingleSession]_vars

\* The registry under the client's commands and the loss of the connection.
SpecRegistry ==
  Init /\ [][Sessions \/ Tick \/ ProcessCommand \/ ConnectionLost]_vars

\* The registry, with a server that processes every command it receives.
SpecRegistryFair == SpecRegistry /\ WF_vars(ProcessCommand)

\* The registry and its workers.
SpecWorkers == Init /\ [][Sessions \/ Tick \/ ProcessCommand \/ Workers]_vars

\* The client's sessions and warnings, with timers that expire and a clock
\* that advances: the browser runs every due timer.
SpecWarnFair ==
  /\ Init /\ [][Sessions \/ Warnings]_vars
  /\ WF_vars(Tick)
  /\ WF_vars(\E t \in timers : TimerFire(t))

----------------------------------------------------------------------------
(* Vocabulary of the properties *)

\* The session with history key k is in the list.
Present(devices, k) == \E i \in 1..Len(devices) : devices[i].key = k

\* The session with history key k (it is in the list).
ByKey(devices, k) ==
  devices[CHOOSE i \in 1..Len(devices) : devices[i].key = k]

Keys == 1..(MaxAdds + 1)

\* The payload's fields are the session's stored device index and channel,
\* the numbers handleAddDevice stored.
SameIdentity(device, data) ==
  data.deviceIndex = Num(device.index) /\ data.channel = Num(device.channel)

\* The payload names the session's device index and channel, as a number or
\* as a string.
NamesIdentity(device, data) ==
  /\ data.deviceIndex \in {Num(device.index), Str(device.index)}
  /\ data.channel \in {Num(device.channel), Str(device.channel)}

----------------------------------------------------------------------------------------------------------------------------------------------------
(* C1 *)

\* C1: when a warning is delivered whose deviceIndex and channel equal a
\* session's stored device index and channel (warning{deviceIndex:2,
\* channel:1} for a session of device 2, channel 1), that session has
\* hasWarning = TRUE in the list the delivery produces.
C1_EqualIdentitySetsWarning ==
  \A data \in WarningPayloads :
    \A i \in 1..Len(activeDevices) :
      SameIdentity(activeDevices[i], data)
        => MarkWarning(activeDevices, data)[i].hasWarning

----------------------------------------------------------------------------
(* C2 *)

\* C2: a warning for (d, c) changes only sessions whose device index is d
\* and whose channel is c: in the list the delivery produces, a session
\* that differs in either keeps hasWarning and warningTimeout (and every
\* other field), and its timer stays pending; when no session is named, the
\* list and the pending timers are left as they are.
C2_WarningChangesOnlyNamedSessions ==
  \A data \in WarningPayloads :
    LET after == MarkWarning(activeDevices, data)
        named == { i \in 1..Len(activeDevices) :
                     NamesIdentity(activeDevices[i], data) }
    IN /\ Len(after) = Len(activeDevices)
       /\ \A i \in 1..Len(activeDevices) :
            i \notin named =>
              /\ after[i] = activeDevices[i]
              /\ \A t \in timers :
                   t.tid = activeDevices[i].warningTimeout
                     => t \in Reschedule(activeDevices, data)
       /\ named = {} => /\ after = activeDevices
                        /\ Reschedule(activeDevices, data) = timers

\* A fault on device 2, channel 1 was delivered with a session of device 2,
\* channel 0 in the list: only the session of channel 1 carries the warning.
C2_Witness ==
  /\ \E d \in Range(activeDevices) :
       d.index = 2 /\ d.channel = 1 /\ d.hasWarning /\ d.warnedAt = now
  /\ \E d \in Range(activeDevices) :
       d.index = 2 /\ d.channel = 0 /\ ~d.hasWarning
                   /\ d.warningTimeout = NULL

----------------------------------------------------------------------------
(* C3 *)

\* The pending timers that were scheduled for the session with key k.
TimersOf(k) == { t \in timers : t.key = k }

\* C3: each session of the list has at most one pending warning-clear
\* timer: a matching notification cancels the one pending and schedules
\* one, so timers never stack.
C3_AtMostOnePendingTimer ==
  \A d \in Range(activeDevices) : Cardinality(TimersOf(d.key)) <= 1

----------------------------------------------------------------------------
(* C4 *)

\* C4: a session that stays in the list has hasWarning go from TRUE to FALSE
\* no sooner than the warning delay after its latest matching notification,
\* and by the timer that notification scheduled: once it is cleared, no
\* timer scheduled for the session is left to clear it again.
C4_ClearedAfterDelayOnce ==
  [][ \A k \in Keys :
        ( /\ Present(activeDevices, k) /\ Present(activeDevices', k)
          /\ ByKey(activeDevices, k).hasWarning
          /\ ~ByKey(activeDevices', k).hasWarning )
        => /\ now >= ByKey(activeDevices, k).warnedAt + WarningDelay
           /\ \A t \in timers' :
                t.key # k /\ t.tid # ByKey(activeDevices, k).warningTimeout
    ]_vars

----------------------------------------------------------------------------
(* C6 *)

\* C6: removing a session cancels its pending warning-clear timer: after
\* handleRemoveDevice no timer scheduled for a removed session is pending,
\* and no pending timer is left to change hasWarning under the removed id.
C6_RemoveCancelsTimer ==
  [][ \A k \in Keys :
        (Present(activeDevices, k) /\ ~Present(activeDevices', k))
          => /\ \A t \in timers' : t.key # k
             /\ \A t \in timers' : t.id # ByKey(activeDevices, k).id ]_vars

----------------------------------------------------------------------------
(* C5 *)

\* C5: end to end.  For every session of the list a start_audio command
\* with its device index and channel has been emitted; when the client
\* receives warning{deviceIndex: 2, channel: 1}, a session of device 2,
\* channel 1 has hasWarning = TRUE in the list the delivery produces; and a
\* session with hasWarning = TRUE that is not removed and gets no further
\* matching notification has, eventually, hasWarning = FALSE and no pending
\* timer (for a warning whose timer falls due within the clock values of
\* the model).
C5_EndToEnd ==
  /\ [](\A d \in Range(activeDevices) :
          \E j \in 1..Len(outbox) :
            outbox[j] = [ cmd |-> "start_audio", deviceId |-> d.id,
                          deviceIndex |-> d.index, channel |-> d.channel ])
  /\ [](\A i \in 1..Len(activeDevices) :
          (activeDevices[i].index = 2 /\ activeDevices[i].channel = 1)
            => MarkWarning(activeDevices,
                 [deviceIndex |-> Num(2), channel |-> Num(1)])[i].hasWarning)
  /\ \A k \in Keys : \A w \in ClockValues :
       ( /\ Present(activeDevices, k) /\ ByKey(activeDevices, k).hasWarning
         /\ ByKey(activeDevices, k).warnedAt = w
         /\ w + WarningDelay <= LastClock )
         ~> \/ ~mounted
            \/ ~Present(activeDevices, k)
            \/ ByKey(activeDevices, k).warnedAt # w
            \/ /\ ~ByKey(activeDevices, k).hasWarning
               /\ TimersOf(k) = {}

----------------------------------------------------------------------------
(* C7 *)

\* C7: each successful add emits exactly one start_audio {deviceId,
\* deviceIndex, channel} with the selected device's index and the selected
\* channel, and appends exactly one session, with hasWarning and isPlaying
\* FALSE, no audio handle and no timer; the sessions that were in the list
\* are unchanged.  The list grows by no other step.
C7_AddEmitsStartAndAppends ==
  [][ /\ ( handleAddDevice /\ selectedDevice # NULL /\ selectedChannel # NULL )
           => Len(activeDevices') = Len(activeDevices) + 1
      /\ Len(activeDevices') > Len(activeDevices) =>
           LET new == activeDevices'[Len(activeDevices')] IN
           /\ Len(activeDevices') = Len(activeDevices) + 1
           /\ SubSeq(activeDevices', 1, Len(activeDevices)) = activeDevices
           /\ new.index = selectedDevice /\ new.channel = selectedChannel
           /\ ~new.hasWarning /\ ~new.isPlaying
           /\ ~Truthy(new.stream) /\ ~Truthy(new.source)
           /\ ~Truthy(new.channelIsolator) /\ ~Truthy(new.gainNode)
           /\ new.warningTimeout = NULL
           /\ \A t \in timers' : t.key # new.key
           /\ timers' = timers
           /\ outbox' = Append(outbox,
                [ cmd |-> "start_audio", deviceId |-> new.id,
                  deviceIndex |-> selectedDevice,
                  channel |-> selectedChannel ]) ]_vars

\* A session of device 2, channel 1 was added after a session that carries a
\* warning: the list holds both and the last command emitted is its
\* start_audio.
C7_Witness ==
  /\ Len(activeDevices) = 2
  /\ activeDevices[1].hasWarning /\ activeDevices[1].warningTimeout # NULL
  /\ activeDevices[2].index = 2 /\ activeDevices[2].channel = 1
  /\ ~activeDevices[2].hasWarning
  /\ Len(outbox) = 2
  /\ outbox[2] = [ cmd |-> "start_audio", deviceId |-> activeDevices[2].id,
                   deviceIndex |-> 2, channel |-> 1 ]
  /\ selectedDevice = NULL /\ selectedChannel = NULL

----------------------------------------------------------------------------
(* C8 *)

\* C8: removing a session emits stop_audio with its deviceIndex and channel,
\* stops its capture stream and disconnects its three nodes if a listen
\* graph is attached, and deletes exactly that session, leaving every other
\* session as it was.
C8_RemoveTearsDownOneSession ==
  [][ \A deviceId \in { d.id : d \in Range(activeDevices) } :
        handleRemoveDevice(deviceId) =>
          LET i == FindIndex(activeDevices, deviceId)
              device == activeDevices[i]
          IN /\ outbox' = Append(outbox,
                  [ cmd |-> "stop_audio", deviceId |-> device.id,
                    deviceIndex |-> device.index, channel |-> device.channel ])
             /\ Truthy(device.stream) => device.stream \notin liveStreams'
             /\ Truthy(device.source)
                  => <<"source", device.source>> \notin connected'
             /\ Truthy(device.channelIsolator)
                  => <<"channelIsolator", device.channelIsolator>>
                       \notin connected'
             /\ Truthy(device.gainNode)
                  => <<"gainNode", device.gainNode>> \notin connected'
             /\ activeDevices' = Resume(activeDevices, i) ]_vars

----------------------------------------------------------------------------
(* C9 *)

\* C9: once the commands emitted have been processed, every session of the
\* list has a running worker for its (deviceIndex, channel), also when two
\* sessions were added for one device and channel and one was removed.
C9_SessionsHaveWorkers ==
  (mounted /\ outbox = <<>>)
    => \A d \in Range(activeDevices) : BagIn(<<d.index, d.channel>>, workers)

----------------------------------------------------------------------------
(* C10 *)

\* C10: disengaging listen on a session that is listening stops its capture
\* stream and disconnects its three nodes, leaves it with isPlaying = FALSE
\* and stream, source, channelIsolator and gainNode null, and changes no
\* other session.
C10_PauseReleasesOneSession ==
  [][ \A deviceId \in { d.id : d \in Range(activeDevices) } :
        ( handlePlayPause(deviceId)
          /\ activeDevices[FindIndex(activeDevices, deviceId)].isPlaying ) =>
          LET i == FindIndex(activeDevices, deviceId)
              device == activeDevices[i]
          IN /\ device.stream \notin liveStreams'
             /\ GraphNodes(device.stream) \cap connected' = {}
             /\ Len(activeDevices') = Len(activeDevices)
             /\ ~activeDevices'[i].isPlaying
             /\ activeDevices'[i].stream = NULL
             /\ activeDevices'[i].source = NULL
             /\ activeDevices'[i].channelIsolator = NULL
             /\ activeDevices'[i].gainNode = NULL
             /\ \A j \in 1..Len(activeDevices) :
                  j # i => activeDevices'[j] = activeDevices[j] ]_vars

----------------------------------------------------------------------------
(* C11 *)

\* C11: after the unmount cleanup has run, no session's capture stream is
\* live and no audio stage of a session is connected, whichever sessions
\* were listening when the component was unmounted.
C11_UnmountReleasesListenGraph ==
  ~mounted =>
    \A d \in Range(activeDevices) :
      /\ d.stream \notin liveStreams
      /\ <<"source", d.source>> \notin connected
      /\ <<"channelIsolator", d.channelIsolator>> \notin connected
      /\ <<"gainNode", d.gainNode>> \notin connected

----------------------------------------------------------------------------
(* C12 *)

\* C12: the unmount cleanup cancels the pending warning timer of every
\* session that is in the list when it runs, and emits one stop_audio with
\* that session's deviceIndex and channel for each of them, in list order
\* and skipping none, all of them before the socket is disconnected.
C12_UnmountStopsEverySession ==
  [][ Unmount =>
        /\ \A d \in Range(activeDevices) : \A t \in timers' : t.key # d.key
        /\ Len(outbox') = Len(outbox) + Len(activeDevices) + 1
        /\ \A i \in 1..Len(activeDevices) :
             outbox'[Len(outbox) + i] =
               [ cmd |-> "stop_audio", deviceId |-> activeDevices[i].id,
                 deviceIndex |-> activeDevices[i].index,
                 channel |-> activeDevices[i].channel ]
        /\ outbox'[Len(outbox')] = SocketDisconnect
        /\ \A j \in 1..Len(outbox) : outbox'[j] = outbox[j] ]_vars

----------------------------------------------------------------------------
(* C13 *)

\* The fields of a session the warning lifecycle owns, and those the listen
\* graph owns.
WarningFields(d) == <<d.hasWarning, d.warningTimeout>>

ListenFields(d) ==
  <<d.isPlaying, d.stream, d.source, d.channelIsolator, d.gainNode>>

\* C13: field ownership.  Of a session that stays in the list, hasWarning
\* and warningTimeout are changed only by a warning delivery or a timer
\* expiry, and isPlaying and the four audio handles only by play/pause (the
\* call and its completion); a warning delivery or timer expiry leaves
\* isPlaying and the handles as they were, and a play or pause leaves
\* hasWarning and the timer as they were.
C13_FieldOwnership ==
  [][ \A k \in Keys :
        (Present(activeDevices, k) /\ Present(activeDevices', k)) =>
          LET d == ByKey(activeDevices, k)
              e == ByKey(activeDevices', k)
              warning == \/ \E data \in WarningPayloads : OnWarning(data)
                         \/ \E t \in timers : TimerFire(t)
              playPause ==
                \/ \E deviceId \in { x.id : x \in Range(activeDevices) } :
                     handlePlayPause(deviceId)
                \/ getUserMediaResolved
          IN /\ WarningFields(e) # WarningFields(d) => warning
             /\ ListenFields(e) # ListenFields(d) => playPause
             /\ warning => ListenFields(e) = ListenFields(d)
             /\ playPause => /\ WarningFields(e) = WarningFields(d)
                             /\ timers' = timers ]_vars

\* A session that carries a warning with its timer pending has been
\* listened to and paused: the warning and the timer are still there.
C13_Witness ==
  \E d \in Range(activeDevices) :
    /\ d.hasWarning
    /\ \E t \in timers : t.tid = d.warningTimeout /\ t.key = d.key
    /\ ~d.isPlaying /\ d.channelIsolator = NULL
    /\ \E a \in acquired : a.key = d.key /\ a.built

----------------------------------------------------------------------------
(* C14 *)

\* C14: engaging or disengaging listen (the call, and its completion or
\* failure) emits no command, so what the client has asked the server to
\* monitor is changed only by add, remove and the unmount cleanup.
C14_ListenEmitsNoCommand ==
  [][ /\ ( \/ \E deviceId \in { d.id : d \in Range(activeDevices) } :
                handlePlayPause(deviceId)
           \/ getUserMediaResolved
           \/ getUserMediaRejected
           \/ createNodeThrows ) => outbox' = outbox
      /\ outbox' # outbox =>
           \/ handleAddDevice
           \/ \E deviceId \in { d.id : d \in Range(activeDevices) } :
                handleRemoveDevice(deviceId)
           \/ Unmount ]_vars

\* A session has been listened to and paused, and the only command emitted
\* is the start_audio of its add.
C14_Witness ==
  /\ Len(activeDevices) = 1
  /\ ~activeDevices[1].isPlaying /\ activeDevices[1].channelIsolator = NULL
  /\ liveStreams = {} /\ acquired # {}
  /\ outbox = << [ cmd |-> "start_audio", deviceId |-> activeDevices[1].id,
                   deviceIndex |-> activeDevices[1].index,
                   channel |-> activeDevices[1].channel ] >>

----------------------------------------------------------------------------
(* C15 *)

\* C15, as claimed: after every process() call, every output channel's
\* block is the block of the target input channel.
C15_EveryCallCopiesTarget ==
  processor.calls > 0 =>
    \A c \in 1..Len(processor.output) :
      /\ processor.targetChannel + 1 \in 1..Len(processor.input)
      /\ processor.output[c] = processor.input[processor.targetChannel + 1]

\* C15, amended: after a process() call whose input carries the target
\* channel, every output channel's block is the block of that channel;
\* after a call whose input has no channels, or fewer channels than the
\* target channel needs, every output channel is silent.  In both cases no
\* block of another input channel is on an output channel.
C15_CopiesTargetOrSilent ==
  processor.calls > 0 =>
    \A c \in 1..Len(processor.output) :
      IF processor.targetChannel + 1 \in 1..Len(processor.input)
      THEN processor.output[c] = processor.input[processor.targetChannel + 1]
      ELSE processor.output[c] = Silent

\* A call with two different input channels and target channel 1: both
\* output channels carry the second input channel's block.
C15_Witness ==
  /\ processor.calls > 0
  /\ processor.targetChannel = 1
  /\ Len(processor.input) = 2 /\ processor.input[1] # processor.input[2]
  /\ Len(processor.output) = 2
  /\ processor.output[1] = processor.input[2]
  /\ processor.output[2] = processor.input[2]

----------------------------------------------------------------------------
(* C16 *)

\* C16: for every identity (deviceIndex, channel) at most one worker is
\* running at any time, also when the client has sent start_audio for one
\* identity more than once (two sessions of one device and channel).
C16_AtMostOneWorkerPerIdentity ==
  \A identity \in BagToSet(workers) : CopiesIn(identity, workers) <= 1

\* Two sessions of one device and channel are in the list, both start_audio
\* commands have been processed, the second as a no-op, and one worker runs.
C16_Witness ==
  /\ Len(activeDevices) = 2
  /\ activeDevices[1].index = activeDevices[2].index
  /\ activeDevices[1].channel = activeDevices[2].channel
  /\ outbox = <<>>
  /\ reply = "exists"
  /\ CopiesIn(<<activeDevices[1].index, activeDevices[1].channel>>, workers) = 1

----------------------------------------------------------------------------
(* C17 *)

\* C17: when the connection is lost, by the client's own disconnect after
\* its cleanup or abruptly with no stop_audio sent, the server eventually
\* has stopped every worker the connection had started and removed its
\* handle: no worker is left in the registry.
C17_ConnectionLossStopsWorkers ==
  (\E j \in 1..Len(outbox) : outbox[j] = SocketDisconnect)
    ~> (workers = EmptyBag /\ reply = "disconnected")

\* The connection was lost abruptly while a session was in the list, with
\* no stop_audio sent for it: its worker has been stopped.
C17_Witness ==
  /\ mounted
  /\ Len(activeDevices) = 1 /\ nextKey = 1
  /\ outbox = <<>>
  /\ reply = "disconnected"
  /\ workers = EmptyBag

----------------------------------------------------------------------------
(* C18 *)

\* C18: two FaultEvents emitted for one identity are never closer together
\* than the minimum reporting interval, whatever the labels of the windows
\* (a sustained fault included); and a worker whose window is classified
\* fault, with no event of its own identity within the interval, emits its
\* event in that step, whatever events other identities have emitted.
C18_OneEventPerInterval ==
  /\ [](\A e \in events : \A f \in events :
          (e.monitorIdentity = f.monitorIdentity /\ e.timestamp < f.timestamp)
            => f.timestamp - e.timestamp >= ReportInterval)
  /\ [][ \A identity \in Identities :
           ( /\ AnalyseWindow(identity, "fault")
             /\ \A e \in events :
                  e.monitorIdentity = identity
                    => now - e.timestamp >= ReportInterval )
           => [monitorIdentity |-> identity, timestamp |-> now] \in events'
       ]_vars

\* Under a sustained fault on two identities, one has emitted two events an
\* interval or more apart, and the other an event at the instant of the
\* first's latest one.
C18_Witness ==
  \E e \in events : \E f \in events : \E g \in events :
    /\ e.monitorIdentity = f.monitorIdentity
    /\ f.timestamp - e.timestamp >= ReportInterval
    /\ g.monitorIdentity # f.monitorIdentity
    /\ g.timestamp = f.timestamp

----------------------------------------------------------------------------
(* C19 *)

\* C19: a stop_audio for an identity with no running worker is a no-op: it
\* reports no error and leaves the registry, and so every other worker, as
\* it was; so the second stop_audio of two sessions of one device and
\* channel changes nothing.
C19_StopWithoutWorkerIsNoOp ==
  [][ ( /\ ProcessCommand
        /\ Head(outbox).cmd = "stop_audio"
        /\ ~BagIn(<<Head(outbox).deviceIndex, Head(outbox).channel>>, workers) )
      => (workers' = workers /\ reply' = "noop") ]_vars

\* The component was unmounted with two sessions of one device and channel
\* in the list: both stop_audio commands of the cleanup have been processed,
\* the second as a no-op, and the disconnect is still to come.
C19_Witness ==
  /\ ~mounted
  /\ Len(activeDevices) = 2
  /\ activeDevices[1].index = activeDevices[2].index
  /\ activeDevices[1].channel = activeDevices[2].channel
  /\ outbox = <<SocketDisconnect>>
  /\ reply = "noop"
  /\ workers = EmptyBag

----------------------------------------------------------------------------
(* C20 *)

\* C20: at most one capture stream is live per session.  Every live stream
\* that an engage-listen acquired and built its graph on, for a session that
\* is in the list, is the one the session's stream field refers to, also
\* when listen was triggered again for the session while an earlier engage
\* was awaiting its stream; so a pause, which stops the stream of that
\* field, stops every stream acquired for the session.
C20_LiveStreamsAreReferenced ==
  mounted =>
    \A a \in acquired :
      (a.built /\ a.h \in liveStreams /\ Present(activeDevices, a.key))
        => ByKey(activeDevices, a.key).stream = a.h

----------------------------------------------------------------------------
(* C21 *)

\* C21: a session removed while an engage-listen for it awaits the capture
\* stream leaves nothing behind.  Once the await has completed and the graph
\* is built, a session that is no longer in the list has no live capture
\* stream and no connected audio node.
C21_RemovedSessionHoldsNothing ==
  mounted =>
    \A a \in acquired :
      (a.built /\ ~Present(activeDevices, a.key))
        => (a.h \notin liveStreams /\ GraphNodes(a.h) \cap connected = {})

----------------------------------------------------------------------------
(* C22 *)

\* C22: a failed engage-listen leaves nothing behind.  A step in which the
\* engage fails (the worklet is not loaded, or getUserMedia rejects, or
\* creating an audio node throws after the stream was acquired) leaves the
\* session list as it was and leaves no capture stream live and no node
\* connected that was not so before.
C22_FailedEngageLeavesNothing ==
  [][ ( \/ getUserMediaRejected
        \/ createNodeThrows
        \/ /\ ~workletLoaded
           /\ \E d \in Range(activeDevices) :
                ~d.isPlaying /\ handlePlayPause(d.id) )
      => ( /\ activeDevices' = activeDevices
           /\ liveStreams' = liveStreams
           /\ connected' = connected ) ]_vars

----------------------------------------------------------------------------
(* C23 *)

\* C23: session ids are unique among the sessions of the active list after
\* any sequence of add and remove actions, so that a timer expiry, a
\* play/pause or a removal addressed by id affects exactly one session.
C23_SessionIdsUnique ==
  \A i, j \in 1..Len(activeDevices) :
    activeDevices[i].id = activeDevices[j].id => i = j

----------------------------------------------------------------------------
(* C24 *)

\* C24: while the component is mounted, hasWarning of a session is true
\* exactly when its warningTimeout holds a pending timer.  A notification
\* sets both for every session it matches, the expiry of a session's timer
\* clears both, the maps of play and pause leave both as they are, and of a
\* session that stays in the list the two change in no step other than a
\* notification or a timer expiry (so not in an add or in the removal of
\* another session).
C24_WarningIffPendingTimer ==
  /\ [] ( mounted =>
          /\ \A i \in 1..Len(activeDevices) :
               activeDevices[i].hasWarning
                 <=> \E t \in timers :
                       t.tid = activeDevices[i].warningTimeout
          /\ \A data \in WarningPayloads :
               \A i \in MatchIdx(activeDevices, data) :
                 LET d == MarkWarning(activeDevices, data)[i] IN
                   d.hasWarning /\ Truthy(d.warningTimeout)
          /\ \A t \in timers : \A i \in 1..Len(activeDevices) :
               activeDevices[i].key = t.key =>
                 WarningFields(ClearWarning(activeDevices, t.id)[i])
                   = <<FALSE, NULL>>
          /\ \A i, j \in 1..Len(activeDevices) :
               /\ WarningFields(
                    MarkStopped(activeDevices, activeDevices[j].id)[i])
                    = WarningFields(activeDevices[i])
               /\ WarningFields(
                    MarkPlaying(activeDevices, activeDevices[j].id, 1)[i])
                    = WarningFields(activeDevices[i]) )
  /\ [][ \A k \in Keys :
           ( /\ Present(activeDevices, k)
             /\ Present(activeDevices', k)
             /\ WarningFields(ByKey(activeDevices', k))
                  # WarningFields(ByKey(activeDevices, k)) )
           => \/ \E data \in WarningPayloads : OnWarning(data)
              \/ \E t \in timers : TimerFire(t) ]_vars

\* Two sessions are in the list: one warned, its timer pending; the other
\* was warned before, its timer expired, and it is not warned now.
C24_Witness ==
  /\ mounted
  /\ Len(activeDevices) = 2
  /\ \E i, j \in 1..2 :
       /\ activeDevices[i].hasWarning
       /\ \E t \in timers : t.tid = activeDevices[i].warningTimeout
       /\ ~activeDevices[j].hasWarning
       /\ activeDevices[j].warnedAt # NULL
       /\ activeDevices[j].warningTimeout = NULL

----------------------------------------------------------------------------
(* C25 *)

\* The audio handles of a session.
Handles(d) == {d.stream, d.source, d.channelIsolator, d.gainNode}

\* C25: while the component is mounted, isPlaying of a session is true
\* exactly when its stream, source, channelIsolator and gainNode are all
\* set, and false exactly when none of them is (null, or as for the
\* channelIsolator of a newly added session, undefined).
C25_PlayingIffHandles ==
  mounted =>
    \A i \in 1..Len(activeDevices) :
      LET d == activeDevices[i] IN
        /\ d.isPlaying <=> \A h \in Handles(d) : Truthy(h)
        /\ ~d.isPlaying <=> \A h \in Handles(d) : ~Truthy(h)

\* Two sessions with different ids are in the list: one is playing, with its
\* four handles set; the other played and was paused, with its four handles
\* null.
C25_Witness ==
  /\ mounted
  /\ Len(activeDevices) = 2
  /\ activeDevices[1].id # activeDevices[2].id
  /\ \E i, j \in 1..2 :
       /\ activeDevices[i].isPlaying
       /\ \A h \in Handles(activeDevices[i]) : Truthy(h)
       /\ ~activeDevices[j].isPlaying
       /\ Handles(activeDevices[j]) = {NULL}

----------------------------------------------------------------------------
(* C26 *)

\* C26: add-device does nothing unless both a device and a channel are
\* selected.  A step that appends a session or emits start_audio starts with
\* a device selected and the channel selector not at its empty option, and
\* ends with both selections cleared; a step that selects a device ends with
\* the selected channel null.
C26_AddNeedsDeviceAndChannel ==
  [][ /\ ( \/ Len(activeDevices') > Len(activeDevices)
           \/ /\ Len(outbox') > Len(outbox)
              /\ outbox'[Len(outbox')].cmd = "start_audio" )
         => ( /\ selectedDevice # NULL
              /\ selectedChannel # NULL
              /\ selectedDevice' = NULL
              /\ selectedChannel' = NULL )
      /\ (selectedDevice' # selectedDevice /\ selectedDevice' # NULL)
         => selectedChannel' = NULL ]_vars

\* A session was added with a device and a channel selected, which cleared
\* the selection; then a device was selected again, and the channel selector
\* is at its empty option: an add-device now is refused.
C26_Witness ==
  /\ mounted
  /\ Len(activeDevices) = 1
  /\ Len(outbox) = 1
  /\ outbox[1].cmd = "start_audio"
  /\ selectedDevice # NULL
  /\ selectedChannel = NULL

----------------------------------------------------------------------------
(* C27 *)

\* C27: a warning notification that lacks deviceIndex or lacks channel is
\* ignored.  Its delivery leaves the session list, with every session's
\* hasWarning and warningTimeout, and the pending timers as they were, and
\* schedules no new timer.
C27_IncompleteWarningIgnored ==
  [][ \A data \in WarningPayloads :
        ( (data.deviceIndex = UNDEF \/ data.channel = UNDEF)
          /\ OnWarning(data) )
        => UNCHANGED <<activeDevices, timers, nextTimer>> ]_vars

\* The component is mounted with two sessions, one warned with its timer
\* pending and one not warned, and a further timer could be scheduled: a
\* notification delivered now that was not ignored would show.
C27_Witness ==
  /\ mounted
  /\ nextTimer <= MaxTimers
  /\ Len(activeDevices) = 2
  /\ activeDevices[1].hasWarning
  /\ \E t \in timers : t.tid = activeDevices[1].warningTimeout
  /\ ~activeDevices[2].hasWarning

----------------------------------------------------------------------------
(* C28 *)

\* C28: a mounted WarningPopUp calls onClose(warning.id) 5 seconds after it
\* is shown, and never after it has been unmounted; at most one close timer
\* is pending per popup, also when its props change while it is mounted.
\* So a pending close timer belongs to a mounted popup, is the only one, is
\* due 5 seconds after the popup was shown and carries the id of the
\* popup's warning; and every call of onClose was made while the popup was
\* mounted, no sooner than 5 seconds after it was shown.
C28_ClosesFiveSecondsAfterShown ==
  /\ Cardinality(popup.pending) <= 1
  /\ popup.state # "mounted" => popup.pending = {}
  /\ \A t \in popup.pending :
       /\ t.due = popup.shownAt + PopUpDelay
       /\ t.id = popup.warning
  /\ \A c \in popup.calls :
       /\ c.state = "mounted"
       /\ c.at >= popup.shownAt + PopUpDelay

====
